---------------------------- MODULE Spec2Model ----------------------------
(***************************************************************************)
(* A model of fetch_data.py, the Kalshi data fetcher: the ticker           *)
(* classifier, the timestamp parser, the outcome calculator and the        *)
(* fetch / classify / aggregate / save pipeline of fetch_and_save_data.    *)
(*                                                                         *)
(* Strings are sequences of one-character strings, so that upper(),        *)
(* lower(), substring search, replace(), split() and the lexicographic     *)
(* comparison of sort keys are computed as Python computes them.           *)
(* Money is counted in mills (1/1000 dollar): a price of 0.604 is 604.     *)
(* round(x, 2) rounds mills to whole cents; the amounts of the inputs      *)
(* never lie half way between two cents, where the binary value of the     *)
(* float decides.                                                          *)
(***************************************************************************)
EXTENDS Integers, Sequences, FiniteSets, TLC

VARIABLES pc, all_trades, market_cache, calls, idx, dashboard, saved, now, arg, ret

vars == <<pc, all_trades, market_cache, calls, idx, dashboard, saved, now, arg, ret>>

(***************************************************************************)
(* Python values                                                           *)
(***************************************************************************)
EmptyStr == << >>

\* dashboard_data before it is built
NoDashboard == [built |-> FALSE]

\* The clock before datetime.now(timezone.utc) is read
NotRead == [ok |-> FALSE]

(***************************************************************************)
(* Strings                                                                 *)
(***************************************************************************)
UpperMap ==
    ("a" :> "A") @@ ("b" :> "B") @@ ("c" :> "C") @@ ("d" :> "D") @@ ("e" :> "E") @@
    ("f" :> "F") @@ ("g" :> "G") @@ ("h" :> "H") @@ ("i" :> "I") @@ ("j" :> "J") @@
    ("k" :> "K") @@ ("l" :> "L") @@ ("m" :> "M") @@ ("n" :> "N") @@ ("o" :> "O") @@
    ("p" :> "P") @@ ("q" :> "Q") @@ ("r" :> "R") @@ ("s" :> "S") @@ ("t" :> "T") @@
    ("u" :> "U") @@ ("v" :> "V") @@ ("w" :> "W") @@ ("x" :> "X") @@ ("y" :> "Y") @@
    ("z" :> "Z")

UpperChar(c) == IF c \in DOMAIN UpperMap THEN UpperMap[c] ELSE c

LowerChar(c) ==
    IF \E l \in DOMAIN UpperMap : UpperMap[l] = c
    THEN CHOOSE l \in DOMAIN UpperMap : UpperMap[l] = c
    ELSE c

\* str.upper()
Upper(s) == [k \in 1..Len(s) |-> UpperChar(s[k])]

\* str.lower()
Lower(s) == [k \in 1..Len(s) |-> LowerChar(s[k])]

\* kw in s
Contains(s, kw) ==
    \E k \in 1..(Len(s) - Len(kw) + 1) : SubSeq(s, k, k + Len(kw) - 1) = kw

\* any(kw in s for kw in kws)
AnyIn(s, kws) == \E n \in 1..Len(kws) : Contains(s, kws[n])

(***************************************************************************)
(* categorize_sport                                                        *)
(***************************************************************************)
ParlayKeywords ==
    << <<"P","A","R","L","A","Y">>,
       <<"B","U","N","D","L","E">>,
       <<"M","U","L","T","I","G","A","M","E">>,
       <<"M","U","L","T","I">>,
       <<"C","O","M","B","O">> >>

PropKeywords ==
    << <<"G","O","A","L">>,
       <<"P","O","I","N","T">>,
       <<"A","S","S","I","S","T">>,
       <<"R","E","B","O","U","N","D">>,
       <<"T","O","U","C","H","D","O","W","N">>,
       <<"Y","A","R","D">>,
       <<"R","E","C","E","P","T","I","O","N">>,
       <<"R","U","S","H">>,
       <<"P","A","S","S">>,
       <<"H","I","T">>,
       <<"R","B","I">>,
       <<"S","T","R","I","K","E","O","U","T">>,
       <<"S","A","V","E">>,
       <<"S","H","O","T">>,
       <<"E","S","P","O","R","T","S">>,
       <<"G","A","M","I","N","G">>,
       <<"P","L","A","Y","E","R">> >>

\* The if / elif chain over ticker_upper, after the two keyword lists.
LeagueChain(ticker_upper) ==
    IF Contains(ticker_upper, <<"N","H","L">>) THEN "NHL"
    ELSE IF Contains(ticker_upper, <<"N","F","L">>) THEN "NFL"
    ELSE IF Contains(ticker_upper, <<"N","B","A">>) THEN "NBA"
    ELSE IF Contains(ticker_upper, <<"M","L","B">>) THEN "MLB"
    ELSE IF \/ Contains(ticker_upper, <<"N","C","A","A","F">>)
            \/ Contains(ticker_upper, <<"C","F","B">>) THEN "College Football"
    ELSE IF \/ Contains(ticker_upper, <<"N","C","A","A","B">>)
            \/ Contains(ticker_upper, <<"C","B","B">>) THEN "College Basketball"
    ELSE IF \/ Contains(ticker_upper, <<"S","O","C","C","E","R">>)
            \/ Contains(ticker_upper, <<"E","P","L">>)
            \/ Contains(ticker_upper, <<"P","R","E","M","I","E","R">>) THEN "Soccer"
    ELSE IF \/ Contains(ticker_upper, <<"U","F","C">>)
            \/ Contains(ticker_upper, <<"M","M","A">>)
            \/ Contains(ticker_upper, <<"F","I","G","H","T">>) THEN "UFC/MMA"
    ELSE IF \/ Contains(ticker_upper, <<"P","G","A">>)
            \/ Contains(ticker_upper, <<"G","O","L","F">>) THEN "Golf"
    ELSE "Other"

SportOf(ticker_upper) ==
    IF AnyIn(ticker_upper, ParlayKeywords) THEN "Parlays"
    ELSE IF AnyIn(ticker_upper, PropKeywords) THEN "Prop Bets"
    ELSE LeagueChain(ticker_upper)

\* A classifier that forgets ticker.upper(): keywords are matched as written.
categorize_sport_case_sensitive(ticker) == SportOf(ticker)

categorize_sport(ticker) == SportOf(Upper(ticker))

(***************************************************************************)
(* Ticker inputs: up to MaxFragments pieces, glued together.               *)
(***************************************************************************)
MaxFragments == 3

Fragments ==
    { <<"K","X">>, <<"n","f","l">>, <<"N","H","L">>, <<"M","u","l","t","i">>,
      <<"P","A","S","S">>, <<"G","A","M","E">>, <<"e","p","l">>, <<"N","B">>,
      <<"A">>, <<"M","L","B">>, <<"C","F","B">>, <<"n","c","a","a","b">>,
      <<"U","F","C">>, <<"G","o","l","f">>, <<"-","2","5">> }

RECURSIVE Glued(_)
Glued(n) ==
    IF n = 0 THEN { EmptyStr }
    ELSE Glued(n - 1) \cup { s \o f : s \in Glued(n - 1), f \in Fragments }

TickerInputs == Glued(MaxFragments)

NoResult == "NoResult"

(***************************************************************************)
(* The pipeline is idle while a pure function is exercised on its own.     *)
(***************************************************************************)
PipelineIdle ==
    /\ pc = "pure"
    /\ all_trades = << >>
    /\ market_cache = << >>
    /\ calls = << >>
    /\ idx = 0
    /\ dashboard = NoDashboard
    /\ saved = FALSE
    /\ now = NotRead

PipelineVars == <<pc, all_trades, market_cache, calls, idx, dashboard, saved, now>>

InitCategorize ==
    /\ PipelineIdle
    /\ arg \in TickerInputs
    /\ ret = NoResult

CallCategorize ==
    /\ pc = "pure"
    /\ ret = NoResult
    /\ ret' = categorize_sport(arg)
    /\ UNCHANGED <<arg, PipelineVars>>

NextCategorize == CallCategorize

SpecCategorize == InitCategorize /\ [][NextCategorize]_vars


(***************************************************************************)
(* C10: categorize_sport is total and the first matching rule wins.        *)
(* The rules are stated here as an ordered table, and matching as a        *)
(* position-wise case-insensitive comparison, independently of the         *)
(* classifier's if / elif chain.                                           *)
(***************************************************************************)
Rules ==
    << [label |-> "Parlays", kws |-> ParlayKeywords],
       [label |-> "Prop Bets", kws |-> PropKeywords],
       [label |-> "NHL", kws |-> << <<"N","H","L">> >>],
       [label |-> "NFL", kws |-> << <<"N","F","L">> >>],
       [label |-> "NBA", kws |-> << <<"N","B","A">> >>],
       [label |-> "MLB", kws |-> << <<"M","L","B">> >>],
       [label |-> "College Football",
        kws |-> << <<"N","C","A","A","F">>, <<"C","F","B">> >>],
       [label |-> "College Basketball",
        kws |-> << <<"N","C","A","A","B">>, <<"C","B","B">> >>],
       [label |-> "Soccer",
        kws |-> << <<"S","O","C","C","E","R">>, <<"E","P","L">>,
                   <<"P","R","E","M","I","E","R">> >>],
       [label |-> "UFC/MMA",
        kws |-> << <<"U","F","C">>, <<"M","M","A">>, <<"F","I","G","H","T">> >>],
       [label |-> "Golf", kws |-> << <<"P","G","A">>, <<"G","O","L","F">> >>] >>

Labels == { Rules[n].label : n \in 1..Len(Rules) } \cup { "Other" }

SameLetter(a, b) == UpperChar(a) = UpperChar(b)

ContainsIgnoringCase(t, kw) ==
    \E k \in 0..(Len(t) - Len(kw)) : \A j \in 1..Len(kw) : SameLetter(t[k + j], kw[j])

RuleMatches(n, t) ==
    \E m \in 1..Len(Rules[n].kws) : ContainsIgnoringCase(t, Rules[n].kws[m])

FirstMatchLabel(t) ==
    IF \E n \in 1..Len(Rules) : RuleMatches(n, t)
    THEN Rules[CHOOSE n \in 1..Len(Rules) :
                   /\ RuleMatches(n, t)
                   /\ \A m \in 1..(n - 1) : ~RuleMatches(m, t)].label
    ELSE "Other"

\* C10: for every ticker, the empty one included, categorize_sport returns a
\* label of the fixed list, and it is the label of the first rule, in the
\* order Parlays > Prop Bets > NHL > NFL > NBA > MLB > College Football >
\* College Basketball > Soccer > UFC/MMA > Golf, one of whose keywords occurs
\* in the ticker ignoring case; Other when no rule matches.
C10_FirstRuleWins ==
    ret # NoResult => /\ ret \in Labels
                      /\ ret = FirstMatchLabel(arg)

\* A ticker with a parlay keyword and "nfl" has been classified Parlays.
C10_Witness ==
    /\ ret = "Parlays"
    /\ ContainsIgnoringCase(arg, <<"N","F","L">>)
    /\ ContainsIgnoringCase(arg, <<"M","U","L","T","I">>)

(***************************************************************************)
(* calculate_outcome                                                       *)
(*                                                                         *)
(* A dict is a record; a key that the dict does not hold has the value     *)
(* Absent, and dict.get(key, default) reads it as the default.  The None   *)
(* of a string-valued field is the token NoneStr.                          *)
(***************************************************************************)
NoneStr == <<"None">>

Absent == <<"absent">>

Get(v, default) == IF v = Absent THEN default ELSE v

\* x or ''
OrEmpty(v) == IF v = NoneStr \/ v = EmptyStr THEN EmptyStr ELSE v

NoneInfo == [kind |-> "None"]

\* A dict without the key 'market': {} when other_keys is FALSE.
InfoWithoutMarket(other) == [kind |-> "dict", has_market |-> FALSE, other_keys |-> other]

InfoOf(m) == [kind |-> "dict", has_market |-> TRUE, other_keys |-> FALSE, market |-> m]

\* bool(market_info)
Truthy(market_info) ==
    /\ market_info.kind = "dict"
    /\ market_info.has_market \/ market_info.other_keys

\* market_info.get('market', {})
MarketOf(market_info) ==
    IF market_info.has_market THEN market_info.market
    ELSE [status |-> Absent, result |-> Absent]

MillsPerDollar == 1000

S_open == <<"o","p","e","n">>
S_active == <<"a","c","t","i","v","e">>
S_closed == <<"c","l","o","s","e","d">>
S_settled == <<"s","e","t","t","l","e","d">>
S_finalized == <<"f","i","n","a","l","i","z","e","d">>

Outcome(s, pay, prof) == [status |-> s, payout |-> pay, profit |-> prof]

\* The calculator with a won trade's cost not subtracted from its payout.
calculate_outcome_gross(trade, market_info) ==
    IF ~Truthy(market_info) THEN Outcome("unknown", 0, 0)
    ELSE LET market == MarketOf(market_info)
             status == Lower(Get(market.status, EmptyStr))
             result == Lower(OrEmpty(Get(market.result, NoneStr)))
         IN  IF status \in {S_open, S_active} THEN Outcome("open", 0, 0)
             ELSE IF status \in {S_closed, S_settled, S_finalized}
             THEN IF result = Lower(trade.side)
                  THEN Outcome("won", trade.count * MillsPerDollar,
                               trade.count * MillsPerDollar)
                  ELSE Outcome("lost", 0, 0 - trade.cost)
             ELSE Outcome("unknown", 0, 0)

calculate_outcome(trade, market_info) ==
    IF ~Truthy(market_info) THEN Outcome("unknown", 0, 0)
    ELSE LET market == MarketOf(market_info)
             status == Lower(Get(market.status, EmptyStr))
             result == Lower(OrEmpty(Get(market.result, NoneStr)))
         IN  IF status \in {S_open, S_active} THEN Outcome("open", 0, 0)
             ELSE IF status \in {S_closed, S_settled, S_finalized}
             THEN LET trade_side == Lower(trade.side)
                      count == trade.count
                      cost == trade.cost
                  IN  IF result = trade_side
                      THEN LET payout == count * MillsPerDollar
                               profit == payout - cost
                           IN  Outcome("won", payout, profit)
                      ELSE Outcome("lost", 0, 0 - cost)
             ELSE Outcome("unknown", 0, 0)

(***************************************************************************)
(* Inputs of calculate_outcome                                             *)
(***************************************************************************)
Sides == { <<"y","e","s">>, <<"n","o">>, <<"Y","E","S">>, <<"N","o">> }

Counts == { 0, 1, 3 }

\* Prices per contract, in mills.
Prices == { 0, 400, 604 }

TradeInputs ==
    { [side |-> s, count |-> c, cost |-> p * c] : s \in Sides, c \in Counts, p \in Prices }

Statuses ==
    { Absent, EmptyStr, S_open, S_active, S_closed, S_settled, S_finalized,
      <<"S","e","t","t","l","e","d">>, <<"O","P","E","N">>,
      <<"i","n","i","t","i","a","l","i","z","e","d">> }

Results ==
    { Absent, NoneStr, EmptyStr, <<"y","e","s">>, <<"n","o">>, <<"Y","E","S">> }

MarketInfos ==
    { NoneInfo, InfoWithoutMarket(FALSE), InfoWithoutMarket(TRUE) }
    \cup { InfoOf([status |-> s, result |-> r]) : s \in Statuses, r \in Results }

NoOutcome == Outcome("not called", 0, 0)

InitOutcome ==
    /\ PipelineIdle
    /\ arg \in [trade : TradeInputs, market_info : MarketInfos]
    /\ ret = NoOutcome

\* outcome = calculate_outcome(trade, market_info): the function assigns to
\* neither of its arguments.
CallOutcome ==
    /\ pc = "pure"
    /\ ret = NoOutcome
    /\ ret' = calculate_outcome(arg.trade, arg.market_info)
    /\ UNCHANGED <<arg, PipelineVars>>

NextOutcome == CallOutcome

SpecOutcome == InitOutcome /\ [][NextOutcome]_vars

\* The status string as the market state holds it; '' when there is none.
RawStatus(market_info) ==
    IF market_info.kind = "dict" /\ market_info.has_market
    THEN Get(market_info.market.status, EmptyStr)
    ELSE EmptyStr

RawResult(market_info) ==
    IF market_info.kind = "dict" /\ market_info.has_market
    THEN OrEmpty(Get(market_info.market.result, NoneStr))
    ELSE EmptyStr

OpenStatuses == { S_open, S_active }

ClosedStatuses == { S_closed, S_settled, S_finalized }

\* The four-way classification, given the status string st it is decided on.
Classified(st) ==
    LET trade == arg.trade
        mi == arg.market_info
    IN  /\ ret.status \in { "open", "won", "lost", "unknown" }
        /\ (mi = NoneInfo \/ st \notin (OpenStatuses \cup ClosedStatuses))
              => ret = Outcome("unknown", 0, 0)
        /\ (mi # NoneInfo /\ st \in OpenStatuses) => ret = Outcome("open", 0, 0)
        /\ (mi # NoneInfo /\ st \in ClosedStatuses)
              => IF Lower(RawResult(mi)) = Lower(trade.side)
                 THEN ret = Outcome("won", trade.count * MillsPerDollar,
                                    trade.count * MillsPerDollar - trade.cost)
                 ELSE ret = Outcome("lost", 0, 0 - trade.cost)

\* C1 as stated: the classification is decided on the market's status string
\* as it is, so that any status outside the five lower-case names gives
\* unknown.
C1_AsStated == ret # NoOutcome => Classified(RawStatus(arg.market_info))

\* C1 (amended): calculate_outcome returns exactly one status of open, won,
\* lost, unknown; the market's status is compared after lowercasing; a null
\* market state or a lowercased status outside the five names gives unknown
\* with payout 0 and profit 0; open or active gives open, 0, 0; closed,
\* settled or finalized gives won with payout = count and profit = payout -
\* cost when the lowercased result equals the lowercased side, and otherwise
\* lost with payout 0 and profit = -cost.
C1_Classification == ret # NoOutcome => Classified(Lower(RawStatus(arg.market_info)))

\* A trade on a market whose status is written "Settled" has been classified
\* won, with a cost and a payout.
C1_Witness ==
    /\ ret.status = "won"
    /\ RawStatus(arg.market_info) = <<"S","e","t","t","l","e","d">>
    /\ arg.trade.cost > 0
    /\ ret.profit = arg.trade.count * MillsPerDollar - arg.trade.cost

(***************************************************************************)
(* Digits and string helpers of the timestamp parser                       *)
(***************************************************************************)
DigitChars == <<"0","1","2","3","4","5","6","7","8","9">>

IsDigit(c) == \E n \in 1..Len(DigitChars) : DigitChars[n] = c

DigitVal(c) == (CHOOSE n \in 1..Len(DigitChars) : DigitChars[n] = c) - 1

DigitChar(n) == DigitChars[n + 1]

AllDigits(s) == \A k \in 1..Len(s) : IsDigit(s[k])

RECURSIVE Num(_)
Num(s) == IF s = << >> THEN 0
          ELSE 10 * Num(SubSeq(s, 1, Len(s) - 1)) + DigitVal(s[Len(s)])

Pad2(n) == <<DigitChar(n \div 10), DigitChar(n % 10)>>

Pad4(n) == Pad2(n \div 100) \o Pad2(n % 100)

Pad6(n) == Pad2(n \div 10000) \o Pad4(n % 10000)

\* c in s
HasChar(s, c) == \E k \in 1..Len(s) : s[k] = c

\* s.find(c) + 1: the first position of c in s, Len(s) + 1 when there is none.
FirstAt(s, c) ==
    IF HasChar(s, c)
    THEN CHOOSE k \in 1..Len(s) : s[k] = c /\ \A j \in 1..(k - 1) : s[j] # c
    ELSE Len(s) + 1

\* s.split(c)[0]
Before(s, c) == SubSeq(s, 1, FirstAt(s, c) - 1)

\* everything after the first c
After(s, c) == SubSeq(s, FirstAt(s, c) + 1, Len(s))

UtcSuffix == <<"+","0","0",":","0","0">>

\* time_str.replace('Z', '+00:00')
RECURSIVE ReplaceZ(_)
ReplaceZ(s) ==
    IF s = << >> THEN << >>
    ELSE (IF Head(s) = "Z" THEN UtcSuffix ELSE <<Head(s)>>) \o ReplaceZ(Tail(s))

MicroDigits == 6

\* s[:6].ljust(6, '0')
RECURSIVE LJustZero(_)
LJustZero(s) ==
    IF Len(s) >= MicroDigits THEN SubSeq(s, 1, MicroDigits)
    ELSE LJustZero(s \o <<"0">>)

(***************************************************************************)
(* datetime                                                                *)
(*                                                                         *)
(* A datetime is a record of its fields; aware tells whether it carries a  *)
(* UTC offset, off is the offset in minutes.  NoDate is None.              *)
(***************************************************************************)
NoDate == [ok |-> FALSE]

IsLeap(y) == (y % 4 = 0 /\ y % 100 # 0) \/ y % 400 = 0

DaysInMonth(y, mo) ==
    IF mo = 2 THEN (IF IsLeap(y) THEN 29 ELSE 28)
    ELSE IF mo \in {4, 6, 9, 11} THEN 30 ELSE 31

\* Days from 1970-01-01 to the civil date y-mo-d.
DaysFromCivil(y, mo, d) ==
    LET yy == IF mo <= 2 THEN y - 1 ELSE y
        era == yy \div 400
        yoe == yy - era * 400
        mp == IF mo > 2 THEN mo - 3 ELSE mo + 9
        doy == (153 * mp + 2) \div 5 + d - 1
        doe == yoe * 365 + yoe \div 4 - yoe \div 100 + doy
    IN  era * 146097 + doe - 719468

SecondsPerDay == 86400

\* The instant of an aware datetime, or of a naive one read as UTC:
\* <<seconds since 2025-01-01T00:00:00Z, microseconds>>; the count starts in
\* 2025 to stay within 32 bits.
Instant(dt) ==
    LET days == DaysFromCivil(dt.y, dt.mo, dt.d) - DaysFromCivil(2025, 1, 1)
        off == IF dt.aware THEN dt.off ELSE 0
    IN  <<days * SecondsPerDay + dt.h * 3600 + dt.mi * 60 + dt.s - off * 60, dt.us>>

\* a >= b on instants
InstantGeq(a, b) == a[1] > b[1] \/ (a[1] = b[1] /\ a[2] >= b[2])

\* The "+HH:MM" / "-HH:MM" suffix, parsed: the offset in minutes, or no match.
ParseOffset(s) ==
    IF /\ Len(s) = 6
       /\ s[1] \in {"+", "-"}
       /\ IsDigit(s[2]) /\ IsDigit(s[3]) /\ s[4] = ":" /\ IsDigit(s[5]) /\ IsDigit(s[6])
       /\ Num(SubSeq(s, 2, 3)) < 24 /\ Num(SubSeq(s, 5, 6)) < 60
    THEN [ok |-> TRUE,
          off |-> (IF s[1] = "-" THEN -1 ELSE 1)
                  * (Num(SubSeq(s, 2, 3)) * 60 + Num(SubSeq(s, 5, 6)))]
    ELSE [ok |-> FALSE, off |-> 0]

\* datetime.fromisoformat(s) for "YYYY-MM-DD" and for
\* "YYYY-MM-DD?HH:MM:SS[.fff[fff]][+HH:MM|-HH:MM]"; NoDate stands for the
\* ValueError of any other string.
fromisoformat(s) ==
    LET dateOk ==
            /\ Len(s) >= 10
            /\ AllDigits(SubSeq(s, 1, 4)) /\ s[5] = "-"
            /\ AllDigits(SubSeq(s, 6, 7)) /\ s[8] = "-"
            /\ AllDigits(SubSeq(s, 9, 10))
        y == Num(SubSeq(s, 1, 4))
        mo == Num(SubSeq(s, 6, 7))
        d == Num(SubSeq(s, 9, 10))
        civilOk == y >= 1 /\ mo \in 1..12 /\ d >= 1 /\ d <= DaysInMonth(y, mo)
        timeOk ==
            /\ Len(s) >= 19
            /\ AllDigits(SubSeq(s, 12, 13)) /\ s[14] = ":"
            /\ AllDigits(SubSeq(s, 15, 16)) /\ s[17] = ":"
            /\ AllDigits(SubSeq(s, 18, 19))
        h == Num(SubSeq(s, 12, 13))
        mi == Num(SubSeq(s, 15, 16))
        sec == Num(SubSeq(s, 18, 19))
        clockOk == h < 24 /\ mi < 60 /\ sec < 60
        rest == SubSeq(s, 20, Len(s))
        hasFrac == rest # << >> /\ rest[1] = "."
        afterDot == SubSeq(rest, 2, Len(rest))
        fracLen == IF HasChar(afterDot, "+") \/ HasChar(afterDot, "-")
                   THEN (IF FirstAt(afterDot, "+") < FirstAt(afterDot, "-")
                         THEN FirstAt(afterDot, "+") ELSE FirstAt(afterDot, "-")) - 1
                   ELSE Len(afterDot)
        frac == SubSeq(afterDot, 1, fracLen)
        fracOk == ~hasFrac \/ (Len(frac) \in {3, 6} /\ AllDigits(frac))
        us == IF hasFrac THEN Num(LJustZero(frac)) ELSE 0
        tz == IF hasFrac THEN SubSeq(afterDot, fracLen + 1, Len(afterDot)) ELSE rest
        zone == ParseOffset(tz)
    IN  IF dateOk /\ civilOk /\ Len(s) = 10
        THEN [ok |-> TRUE, y |-> y, mo |-> mo, d |-> d, h |-> 0, mi |-> 0, s |-> 0,
              us |-> 0, aware |-> FALSE, off |-> 0]
        ELSE IF dateOk /\ civilOk /\ timeOk /\ clockOk /\ fracOk /\ (tz = << >> \/ zone.ok)
        THEN [ok |-> TRUE, y |-> y, mo |-> mo, d |-> d, h |-> h, mi |-> mi, s |-> sec,
              us |-> us, aware |-> (tz # << >>), off |-> zone.off]
        ELSE NoDate

\* datetime.isoformat()
isoformat(dt) ==
    Pad4(dt.y) \o <<"-">> \o Pad2(dt.mo) \o <<"-">> \o Pad2(dt.d) \o <<"T">>
    \o Pad2(dt.h) \o <<":">> \o Pad2(dt.mi) \o <<":">> \o Pad2(dt.s)
    \o (IF dt.us # 0 THEN <<".">> \o Pad6(dt.us) ELSE << >>)
    \o (IF dt.aware
        THEN LET m == IF dt.off < 0 THEN 0 - dt.off ELSE dt.off
             IN  <<(IF dt.off < 0 THEN "-" ELSE "+")>> \o Pad2(m \div 60)
                 \o <<":">> \o Pad2(m % 60)
        ELSE << >>)

\* dt.strftime('%Y-%m')
MonthSort(dt) == Pad4(dt.y) \o <<"-">> \o Pad2(dt.mo)

MonthAbbr ==
    << <<"J","a","n">>, <<"F","e","b">>, <<"M","a","r">>, <<"A","p","r">>,
       <<"M","a","y">>, <<"J","u","n">>, <<"J","u","l">>, <<"A","u","g">>,
       <<"S","e","p">>, <<"O","c","t">>, <<"N","o","v">>, <<"D","e","c">> >>

\* dt.strftime('%b %Y')
MonthLabel(dt) == MonthAbbr[dt.mo] \o <<" ">> \o Pad4(dt.y)

Unknown == <<"U","n","k","n","o","w","n">>

(***************************************************************************)
(* parse_trade_date                                                        *)
(***************************************************************************)
\* The rewriting of time_str before it is parsed.
NormalizedTime(created_time) ==
    LET s1 == IF HasChar(created_time, "Z") THEN ReplaceZ(created_time)
              ELSE created_time
    IN  IF HasChar(s1, ".") /\ HasChar(s1, "+")
        THEN LET parts0 == Before(s1, ".")
                 parts1 == Before(After(s1, "."), ".")
                 microseconds == LJustZero(Before(parts1, "+"))
             IN  parts0 \o <<".">> \o microseconds \o UtcSuffix
        ELSE s1

parse_trade_date(created_time) ==
    IF created_time = NoneStr \/ created_time = EmptyStr THEN NoDate
    ELSE fromisoformat(NormalizedTime(created_time))

(***************************************************************************)
(* Arithmetic of the statistics                                            *)
(***************************************************************************)
\* round(num / den), den > 0, a half going to the even neighbour.
RoundDiv(num, den) ==
    LET q == num \div den
        r == num % den
    IN  IF 2 * r < den THEN q
        ELSE IF 2 * r > den THEN q + 1
        ELSE IF q % 2 = 0 THEN q ELSE q + 1

MillsPerCent == 10

\* round(x, 2) of an amount in mills
Round2(x) == MillsPerCent * RoundDiv(x, MillsPerCent)

\* round(part / whole * 100, 1), in tenths of a percent
PercentTenths(part, whole) == RoundDiv(part * 1000, whole)

\* The sequence q as a tuple of its values: a sequence written [k \in 1..n |-> e]
\* is computed element by element each time it is read, a tuple is not.
Tuple(q) == q \o << >>

RECURSIVE SumSeq(_)
SumSeq(q) == IF q = << >> THEN 0 ELSE Head(q) + SumSeq(Tail(q))

\* The elements of a finite set of integers, ascending.
Ascending(S) ==
    Tuple([r \in 1..Cardinality(S) |->
              CHOOSE x \in S : Cardinality({y \in S : y < x}) = r - 1])

(***************************************************************************)
(* Ordering                                                                *)
(***************************************************************************)
CodePoint ==
    (" " :> 32) @@ ("+" :> 43) @@ ("-" :> 45) @@ ("." :> 46) @@ ("0" :> 48) @@
    ("1" :> 49) @@ ("2" :> 50) @@ ("3" :> 51) @@ ("4" :> 52) @@ ("5" :> 53) @@
    ("6" :> 54) @@ ("7" :> 55) @@ ("8" :> 56) @@ ("9" :> 57) @@ (":" :> 58) @@
    ("T" :> 84) @@ ("U" :> 85) @@ ("k" :> 107) @@ ("n" :> 110) @@ ("o" :> 111) @@
    ("w" :> 119)

\* a < b on str: by code point, a proper prefix first.
StrLess(a, b) ==
    LET n == IF Len(a) < Len(b) THEN Len(a) ELSE Len(b)
        diff == {k \in 1..n : a[k] # b[k]}
    IN  IF diff = {} THEN Len(a) < Len(b)
        ELSE LET k == CHOOSE m \in diff : \A j \in diff : m <= j
             IN  CodePoint[a[k]] < CodePoint[b[k]]

\* sorted(range(1, n + 1), reverse=True) under the comparison gt of the keys,
\* gt[i, j] being key(i) > key(j): the sort is stable, so position j precedes
\* position i when its key is greater, or when the keys are equal and j < i.
StableDescending(n, gt) ==
    LET Precedes(j, i) == gt[j, i] \/ (~gt[i, j] /\ j < i)
        rank == Tuple([i \in 1..n |-> 1 + Cardinality({j \in 1..n : Precedes(j, i)})])
    IN  Tuple([r \in 1..n |-> CHOOSE i \in 1..n : rank[i] = r])

\* x.get('trade_date') or ''
DateKey(t) == IF t.trade_date = NoneStr THEN EmptyStr ELSE t.trade_date

\* sorted(trades, key=lambda x: x.get('trade_date') or '', reverse=True), where
\* a list of trades is the sequence ix of their positions in T.
ByDateDescending(T, ix) ==
    LET key == Tuple([k \in 1..Len(ix) |-> DateKey(T[ix[k]])])
        perm == StableDescending(Len(ix), [i, j \in 1..Len(ix) |-> StrLess(key[j], key[i])])
    IN  Tuple([r \in 1..Len(ix) |-> ix[perm[r]]])

(***************************************************************************)
(* fetch_and_save_data: fetching the fills                                 *)
(***************************************************************************)
\* The trade record built from one fill.
TradeOf(fill) ==
    LET trade_date == parse_trade_date(fill.created_time)
    IN  [ticker |-> fill.ticker,
         side |-> fill.side,
         count |-> fill.count,
         price_dollars |-> fill.price,
         cost |-> fill.price * fill.count,
         created_time |-> IF fill.created_time = EmptyStr THEN NoneStr
                          ELSE fill.created_time,
         trade_date |-> IF trade_date.ok THEN isoformat(trade_date) ELSE NoneStr,
         sport |-> categorize_sport(fill.ticker)]

Init ==
    /\ pc = "fetch"
    /\ all_trades = << >>
    /\ market_cache = << >>
    /\ calls = << >>
    /\ idx = 0
    /\ dashboard = NoDashboard
    /\ saved = FALSE
    /\ now = NotRead
    /\ arg = << >>
    /\ ret = NoResult

\* One fill of a page of get_fills, appended to all_trades.
FetchFillFrom(fills, max) ==
    /\ pc = "fetch"
    /\ Len(all_trades) < max
    /\ \E fill \in fills : all_trades' = Append(all_trades, TradeOf(fill))
    /\ UNCHANGED <<pc, market_cache, calls, idx, dashboard, saved, now, arg, ret>>

\* get_fills returns no fills, or no cursor: the paging loop ends.
EndFetch ==
    /\ pc = "fetch"
    /\ pc' = IF all_trades = << >> THEN "aggregate" ELSE "outcomes"
    /\ idx' = 1
    /\ UNCHANGED <<all_trades, market_cache, calls, dashboard, saved, now, arg, ret>>

\* get_fills raises (raise_for_status): nothing catches it, the run ends.
FetchRaises ==
    /\ pc = "fetch"
    /\ pc' = "crashed"
    /\ UNCHANGED <<all_trades, market_cache, calls, idx, dashboard, saved, now, arg, ret>>

(***************************************************************************)
(* fetch_and_save_data: the market outcome of each trade                   *)
(***************************************************************************)
\* The trade with its outcome and its month, as the loop body leaves it.
Classify(trade, market_info) ==
    LET outcome == calculate_outcome(trade, market_info)
        dt == IF trade.trade_date # NoneStr THEN fromisoformat(trade.trade_date)
              ELSE NoDate
    IN  [ticker |-> trade.ticker,
         side |-> trade.side,
         count |-> trade.count,
         price_dollars |-> trade.price_dollars,
         cost |-> trade.cost,
         created_time |-> trade.created_time,
         trade_date |-> trade.trade_date,
         sport |-> trade.sport,
         outcome_status |-> outcome.status,
         payout |-> outcome.payout,
         profit |-> outcome.profit,
         month |-> IF dt.ok THEN MonthLabel(dt) ELSE Unknown,
         month_sort |-> IF dt.ok THEN MonthSort(dt) ELSE Unknown]

\* The end of one iteration of the loop over all_trades.
Classified_and_next(market_info) ==
    /\ all_trades' = [all_trades EXCEPT ![idx] = Classify(all_trades[idx], market_info)]
    /\ idx' = idx + 1
    /\ pc' = IF idx = Len(all_trades) THEN "aggregate" ELSE "outcomes"

\* ticker in market_cache: no request.
CacheHit ==
    /\ pc = "outcomes"
    /\ all_trades[idx].ticker \in DOMAIN market_cache
    /\ Classified_and_next(market_cache[all_trades[idx].ticker])
    /\ UNCHANGED <<market_cache, calls, dashboard, saved, now, arg, ret>>

\* What get_market may return.
MarketResponses ==
    { InfoOf([status |-> S_open, result |-> EmptyStr]),
      InfoOf([status |-> S_finalized, result |-> <<"y","e","s">>]) }

\* api.get_market(ticker) returns: the response is cached.
GetMarketReturns ==
    /\ pc = "outcomes"
    /\ all_trades[idx].ticker \notin DOMAIN market_cache
    /\ \E response \in MarketResponses :
          /\ market_cache' = (all_trades[idx].ticker :> response) @@ market_cache
          /\ Classified_and_next(response)
    /\ calls' = Append(calls, all_trades[idx].ticker)
    /\ UNCHANGED <<dashboard, saved, now, arg, ret>>

\* A failed lookup that is not remembered: the ticker is asked for again.
GetMarketRaises_not_cached ==
    /\ pc = "outcomes"
    /\ all_trades[idx].ticker \notin DOMAIN market_cache
    /\ Classified_and_next(NoneInfo)
    /\ calls' = Append(calls, all_trades[idx].ticker)
    /\ UNCHANGED <<market_cache, dashboard, saved, now, arg, ret>>

\* A failed lookup that nothing catches: the run ends.
GetMarketRaises_uncaught ==
    /\ pc = "outcomes"
    /\ all_trades[idx].ticker \notin DOMAIN market_cache
    /\ pc' = "crashed"
    /\ calls' = Append(calls, all_trades[idx].ticker)
    /\ UNCHANGED <<all_trades, market_cache, idx, dashboard, saved, now, arg, ret>>

\* api.get_market(ticker) raises: the warning is printed, None is cached.
GetMarketRaises ==
    /\ pc = "outcomes"
    /\ all_trades[idx].ticker \notin DOMAIN market_cache
    /\ market_cache' = (all_trades[idx].ticker :> NoneInfo) @@ market_cache
    /\ Classified_and_next(NoneInfo)
    /\ calls' = Append(calls, all_trades[idx].ticker)
    /\ UNCHANGED <<dashboard, saved, now, arg, ret>>

(***************************************************************************)
(* fetch_and_save_data: the statistics                                     *)
(*                                                                         *)
(* T is all_trades; a list of trades is the sequence of their positions in *)
(* T, as the lists of the program hold references to the same dicts.       *)
(***************************************************************************)
Everything(T) == Tuple([k \in 1..Len(T) |-> k])

CostOf(T, ix) == SumSeq(Tuple([k \in 1..Len(ix) |-> T[ix[k]].cost]))

PayoutOf(T, ix) == SumSeq(Tuple([k \in 1..Len(ix) |-> T[ix[k]].payout]))

ProfitOf(T, ix) == SumSeq(Tuple([k \in 1..Len(ix) |-> T[ix[k]].profit]))

\* len([t for t in trades if t['outcome_status'] == status])
CountOf(T, ix, status) ==
    Cardinality({k \in 1..Len(ix) : T[ix[k]].outcome_status = status})

\* A rate with the lost trades in the numerator.
WinRate_of_losses(won, lost) ==
    IF won + lost > 0 THEN PercentTenths(lost, won + lost) ELSE 0

\* round((won / (won + lost) * 100) if (won + lost) > 0 else 0, 1)
WinRate(won, lost) ==
    IF won + lost > 0 THEN PercentTenths(won, won + lost) ELSE 0

\* round(cost / len(trades), 2) if trades else 0
AvgBet(cost, n) == IF n > 0 THEN MillsPerCent * RoundDiv(cost, MillsPerCent * n) ELSE 0

Summary(T) ==
    LET all == Everything(T)
        total_cost == CostOf(T, all)
        total_payout == PayoutOf(T, all)
        total_profit == ProfitOf(T, all)
        won == CountOf(T, all, "won")
        lost == CountOf(T, all, "lost")
    IN  [total_trades |-> Len(T),
         won |-> won,
         lost |-> lost,
         open |-> CountOf(T, all, "open"),
         win_rate |-> WinRate(won, lost),
         total_invested |-> Round2(total_cost),
         total_payout |-> Round2(total_payout),
         total_profit |-> Round2(total_profit),
         roi |-> IF total_cost > 0 THEN PercentTenths(total_profit, total_cost) ELSE 0,
         avg_bet |-> AvgBet(total_cost, Len(T))]

WindowDays == 7

RecentLimit == 20

\* datetime.now(timezone.utc) - timedelta(days=7), as an instant
SevenDaysAgo(clock) ==
    <<Instant(clock)[1] - WindowDays * SecondsPerDay, Instant(clock)[2]>>

\* A window that leaves out the trade made exactly seven days ago.
IsRecent_exclusive(t, clock) ==
    LET dt == fromisoformat(t.trade_date)
    IN  /\ t.trade_date # NoneStr
        /\ dt.ok
        /\ InstantGeq(Instant(dt), SevenDaysAgo(clock))
        /\ Instant(dt) # SevenDaysAgo(clock)

\* The test of the loop that fills recent_trades.
IsRecent(t, clock) ==
    LET dt == fromisoformat(t.trade_date)
    IN  /\ t.trade_date # NoneStr
        /\ dt.ok
        /\ InstantGeq(Instant(dt), SevenDaysAgo(clock))

RecentStats(T, clock) ==
    LET recent_trades == Ascending({k \in 1..Len(T) : IsRecent(T[k], clock)})
        recent_won == CountOf(T, recent_trades, "won")
        recent_lost == CountOf(T, recent_trades, "lost")
        sorted == ByDateDescending(T, recent_trades)
    IN  [trades |-> Len(recent_trades),
         won |-> recent_won,
         lost |-> recent_lost,
         open |-> CountOf(T, recent_trades, "open"),
         win_rate |-> WinRate(recent_won, recent_lost),
         invested |-> Round2(CostOf(T, recent_trades)),
         profit |-> Round2(ProfitOf(T, recent_trades)),
         trades_list |-> SubSeq(sorted, 1,
                            IF Len(sorted) < RecentLimit THEN Len(sorted) ELSE RecentLimit)]

\* The positions at which a value of the field first appears, ascending: the
\* insertion order of the keys of a defaultdict.
FirstSeen(q) == Ascending({k \in 1..Len(q) : \A j \in 1..(k - 1) : q[j] # q[k]})

\* by_sport.items(): one list per sport, in insertion order.
BySport(T) ==
    LET sports == Tuple([k \in 1..Len(T) |-> T[k].sport])
        first == FirstSeen(sports)
    IN  Tuple([n \in 1..Len(first) |->
                  [sport |-> sports[first[n]],
                   trades |-> Ascending({k \in 1..Len(T) : T[k].sport = sports[first[n]]})]])

\* The sports sorted by profit without reverse=True: least profitable first.
SportOrder_ascending(T) ==
    LET items == BySport(T)
        key == Tuple([n \in 1..Len(items) |-> ProfitOf(T, items[n].trades)])
    IN  StableDescending(Len(items), [i, j \in 1..Len(items) |-> key[i] < key[j]])

\* sorted(by_sport.items(), key=lambda x: sum(t['profit'] for t in x[1]),
\*        reverse=True), as positions in by_sport.items()
SportOrder(T) ==
    LET items == BySport(T)
        key == Tuple([n \in 1..Len(items) |-> ProfitOf(T, items[n].trades)])
    IN  StableDescending(Len(items), [i, j \in 1..Len(items) |-> key[i] > key[j]])

\* One entry of sport_stats.
SportBucket(T, sport, trades) ==
    LET s_won == CountOf(T, trades, "won")
        s_lost == CountOf(T, trades, "lost")
        s_cost == CostOf(T, trades)
    IN  [sport |-> sport,
         trades |-> Len(trades),
         won |-> s_won,
         lost |-> s_lost,
         win_rate |-> WinRate(s_won, s_lost),
         invested |-> Round2(s_cost),
         profit |-> Round2(ProfitOf(T, trades)),
         avg_bet |-> AvgBet(s_cost, Len(trades)),
         trades_list |-> ByDateDescending(T, trades)]

SportStats(T) ==
    LET items == BySport(T)
        order == SportOrder(T)
    IN  Tuple([n \in 1..Len(items) |->
                  SportBucket(T, items[order[n]].sport, items[order[n]].trades)])

\* A grouping by month that keeps the trades without a date, under "Unknown".
InMonths_with_unknown(t) == TRUE

\* if trade['month_sort'] != 'Unknown'
InMonths(t) == t.month_sort # Unknown

\* sorted(by_month.keys())
MonthKeys(T) ==
    LET keys == {T[k].month_sort : k \in {j \in 1..Len(T) : InMonths(T[j])}}
    IN  Tuple([r \in 1..Cardinality(keys) |->
                  CHOOSE m \in keys : Cardinality({o \in keys : StrLess(o, m)}) = r - 1])

\* One entry of month_stats.
MonthBucket(T, month_sort, trades) ==
    LET m_won == CountOf(T, trades, "won")
        m_lost == CountOf(T, trades, "lost")
        m_cost == CostOf(T, trades)
    IN  [month |-> T[trades[1]].month,
         month_sort |-> month_sort,
         trades |-> Len(trades),
         won |-> m_won,
         lost |-> m_lost,
         win_rate |-> WinRate(m_won, m_lost),
         invested |-> Round2(m_cost),
         profit |-> Round2(ProfitOf(T, trades)),
         avg_bet |-> AvgBet(m_cost, Len(trades)),
         trades_list |-> ByDateDescending(T, trades)]

\* by_month[month_sort]
ByMonth(T, month_sort) ==
    Ascending({k \in 1..Len(T) : InMonths(T[k]) /\ T[k].month_sort = month_sort})

MonthStats(T) ==
    LET keys == MonthKeys(T)
    IN  Tuple([n \in 1..Len(keys) |-> MonthBucket(T, keys[n], ByMonth(T, keys[n]))])

\* dashboard_data, without its two generated_at stamps.
Dashboard(T, clock) ==
    [built |-> TRUE,
     summary |-> Summary(T),
     recent_7_days |-> RecentStats(T, clock),
     open_trades |-> Ascending({k \in 1..Len(T) : T[k].outcome_status = "open"}),
     by_sport |-> SportStats(T),
     by_month |-> MonthStats(T),
     all_trades |-> ByDateDescending(T, Everything(T))]

C_june15 ==
    <<"2","0","2","5","-","0","6","-","1","5","T","0","0",":","0","0",":","0","0",
      "+","0","0",":","0","0">>

C_june16 ==
    <<"2","0","2","5","-","0","6","-","1","6","T","1","0",":","0","0",":","0","0",
      ".","0","0","0","0","0","1","+","0","0",":","0","0">>

\* From "Organize data" to json.dump: the statistics are computed with the
\* clock read once, and dashboard_data is written to data.json.
AggregateAt(clocks) ==
    /\ pc = "aggregate"
    /\ \E clock \in clocks :
          /\ now' = fromisoformat(clock)
          /\ dashboard' = Dashboard(all_trades, fromisoformat(clock))
    /\ saved' = TRUE
    /\ pc' = "done"
    /\ UNCHANGED <<all_trades, market_cache, calls, idx, arg, ret>>

(***************************************************************************)
(* The fills the exchange may hold                                         *)
(***************************************************************************)
Yes == <<"y","e","s">>

T_nfl == <<"K","X","N","F","L","G","A","M","E","-","2","5">>
T_nba == <<"K","X","N","B","A","G","A","M","E","-","2","5">>
T_multi == <<"K","X","M","U","L","T","I","N","F","L","-","2","5">>

D_june9 == <<"2","0","2","5","-","0","6","-","0","9","T","1","2",":","0","0",":","0","0","Z">>
D_june7 == <<"2","0","2","5","-","0","6","-","0","7","T","0","0",":","0","0",":","0","0","Z">>
D_june8_naive == <<"2","0","2","5","-","0","6","-","0","8","T","0","0",":","0","0",":","0","0">>
D_june15_late == <<"2","0","2","5","-","0","6","-","1","5","T","0","0",":","0","0",":","0","1","Z">>
D_june9_minus5 == <<"2","0","2","5","-","0","6","-","0","9","T","1","0",":","0","0",":","0","0","-","0","5",":","0","0">>
D_garbage == <<"n","o","t","-","a","-","d","a","t","e">>
D_may31_nanos == <<"2","0","2","5","-","0","5","-","3","1","T","2","2",":","0","0",":","0","0",".","1","2","3","4","5","6","7","8","9","Z">>
D_may20 == <<"2","0","2","5","-","0","5","-","2","0","T","0","9",":","3","0",":","0","0","Z">>

\* Fills that differ in their ticker alone: the market lookups.
LookupFills ==
    { [ticker |-> t, side |-> Yes, count |-> 1, price |-> 400, created_time |-> D_june9]
        : t \in {T_nfl, T_nba, T_multi} }

\* Fills that differ in side, price and month: the money.
MoneyFills ==
    { [ticker |-> t, side |-> sp[1], count |-> 1, price |-> sp[2], created_time |-> c]
        : t \in {T_nfl, T_nba},
          sp \in {<<Yes, 400>>, <<(<<"N","O">>), 400>>, <<(<<"N","O">>), 604>>},
          c \in {NoneStr, D_june9, D_may20} }

\* Fills that differ in the form and the instant of created_time.
DatedFills ==
    { [ticker |-> T_nfl, side |-> Yes, count |-> 2, price |-> 400, created_time |-> c]
        : c \in {NoneStr, D_june9, D_june7, D_june8_naive, D_june15_late,
                 D_june9_minus5, D_garbage, D_may31_nanos} }
    \cup
    { [ticker |-> T_nba, side |-> Yes, count |-> 2, price |-> 400, created_time |-> c]
        : c \in {NoneStr, D_june9, D_may31_nanos} }

MaxLookupTrades == 4

MaxTrades == 2

MaxDatedTrades == 2

FetchLookupFill == FetchFillFrom(LookupFills, MaxLookupTrades)

FetchFill == FetchFillFrom(MoneyFills, MaxTrades)

FetchDatedFill == FetchFillFrom(DatedFills, MaxDatedTrades)

Aggregate == AggregateAt({C_june15})

AggregateDated == AggregateAt({C_june15, C_june16})

Lookups ==
    \/ EndFetch
    \/ FetchRaises
    \/ CacheHit
    \/ GetMarketReturns
    \/ GetMarketRaises

NextLookup == FetchLookupFill \/ Lookups \/ Aggregate

Next == FetchFill \/ Lookups \/ Aggregate

NextDated == FetchDatedFill \/ Lookups \/ AggregateDated

\* The run over fills that differ in their ticker.
SpecLookup == Init /\ [][NextLookup]_vars

\* The run over fills that differ in side, price and month.
Spec == Init /\ [][Next]_vars

\* The run over fills that differ in their timestamps.
SpecDated == Init /\ [][NextDated]_vars

(***************************************************************************)
(* Properties of the run                                                   *)
(***************************************************************************)
\* The number of trades the outcome loop has been through.
Processed == IF idx = 0 THEN 0 ELSE idx - 1

ProcessedTickers == Tuple([k \in 1..Processed |-> all_trades[k].ticker])

Occurrences(q, x) == Cardinality({k \in 1..Len(q) : q[k] = x})

LookupFailed(ticker) ==
    ticker \in DOMAIN market_cache /\ market_cache[ticker] = NoneInfo

\* C2: get_market is called at most once per distinct ticker, a ticker whose
\* lookup failed included, and the calls are made in the order in which the
\* tickers first appear in the trade list: at every point of the run, the
\* calls made so far are the distinct tickers of the trades gone through, in
\* the order of their first appearance.
C2_OneCallPerTicker ==
    /\ \A n \in 1..Len(calls) : Occurrences(calls, calls[n]) = 1
    /\ calls = Tuple([n \in 1..Len(FirstSeen(ProcessedTickers)) |->
                         ProcessedTickers[FirstSeen(ProcessedTickers)[n]]])

\* Three trades on tickers A, B, A have been gone through, the lookup of A
\* having failed: two calls, A then B.
C2_Witness ==
    /\ pc = "done"
    /\ Len(all_trades) >= 3
    /\ all_trades[1].ticker = all_trades[3].ticker
    /\ all_trades[1].ticker # all_trades[2].ticker
    /\ LookupFailed(all_trades[1].ticker)
    /\ calls = <<all_trades[1].ticker, all_trades[2].ticker>>

\* C3: a failed market lookup does not end the run: the run ends early only
\* before the first lookup; and when the run is done every ticker has been
\* looked up, the statistics cover every trade, data.json is written, and
\* every trade of a ticker whose lookup failed is unknown with payout 0 and
\* profit 0.
C3_FailureIsLocal ==
    /\ pc = "crashed" => calls = << >>
    /\ pc = "done"
          => /\ saved
             /\ dashboard.built
             /\ dashboard.summary.total_trades = Len(all_trades)
             /\ Len(dashboard.all_trades) = Len(all_trades)
             /\ \A k \in 1..Len(all_trades) :
                   /\ Occurrences(calls, all_trades[k].ticker) = 1
                   /\ LookupFailed(all_trades[k].ticker)
                         => /\ all_trades[k].outcome_status = "unknown"
                            /\ all_trades[k].payout = 0
                            /\ all_trades[k].profit = 0

\* The lookup of the first ticker failed, the lookup of the next ticker
\* succeeded and its trade won, a later trade of the failed ticker is unknown,
\* and the snapshot is written.
C3_Witness ==
    /\ pc = "done"
    /\ saved
    /\ Len(all_trades) >= 3
    /\ LookupFailed(all_trades[1].ticker)
    /\ all_trades[2].outcome_status = "won"
    /\ all_trades[3].ticker = all_trades[1].ticker
    /\ all_trades[3].outcome_status = "unknown"
    /\ dashboard.summary.won = 1

(***************************************************************************)
(* Properties of the statistics                                            *)
(***************************************************************************)
Profits(buckets) == Tuple([n \in 1..Len(buckets) |-> buckets[n].profit])

TradeProfits(S) ==
    SumSeq(Tuple([n \in 1..Cardinality(S) |-> all_trades[Ascending(S)[n]].profit]))

AllTrades == 1..Len(all_trades)

Dated == {k \in AllTrades : parse_trade_date(all_trades[k].created_time).ok}

\* Every amount of every trade is a whole number of cents.
WholeCents == \A k \in AllTrades : all_trades[k].cost % MillsPerCent = 0

\* C4 as stated: with amounts in whole cents, the per-trade profits, the
\* by_sport profits and the by_month profits each add up to the summary's
\* total_profit.
C4_AsStated ==
    (pc = "done" /\ WholeCents)
       => /\ TradeProfits(AllTrades) = dashboard.summary.total_profit
          /\ SumSeq(Profits(dashboard.by_sport)) = dashboard.summary.total_profit
          /\ SumSeq(Profits(dashboard.by_month)) = dashboard.summary.total_profit

\* C4 (amended): with amounts in whole cents, the per-trade profits and the
\* by_sport profits each add up to the summary's total_profit, and the
\* by_month profits add up to the profit of the trades whose date parsed: to
\* the total less the profit of the trades without a date.
C4_Conservation ==
    (pc = "done" /\ WholeCents)
       => /\ TradeProfits(AllTrades) = dashboard.summary.total_profit
          /\ SumSeq(Profits(dashboard.by_sport)) = dashboard.summary.total_profit
          /\ SumSeq(Profits(dashboard.by_month))
                = dashboard.summary.total_profit - TradeProfits(AllTrades \ Dated)

\* Whole-cent trades in two sports, one of them without a date and lost, the
\* other dated and won.
C4_Witness ==
    /\ pc = "done"
    /\ WholeCents
    /\ Len(dashboard.by_sport) = 2
    /\ Len(dashboard.by_month) = 1
    /\ \E k \in AllTrades \ Dated : all_trades[k].profit < 0
    /\ \E k \in Dated : all_trades[k].profit > 0

\* The positions, in a list of buckets, of the buckets that list trade k.
BucketsOf(buckets, k) ==
    {n \in 1..Len(buckets) : Occurrences(buckets[n].trades_list, k) > 0}

ListedOnce(buckets, k) ==
    /\ Cardinality(BucketsOf(buckets, k)) = 1
    /\ \A n \in BucketsOf(buckets, k) : Occurrences(buckets[n].trades_list, k) = 1

\* C5: after the aggregation every trade is listed in exactly one by_sport
\* bucket; it is listed in a by_month bucket if and only if its created_time
\* parsed, and then in exactly one, the bucket of its month key; no by_month
\* bucket has the key "Unknown"; and a trade without a parsed date is still
\* counted in the summary and listed in all_trades.
C5_Partition ==
    pc = "done"
       => /\ \A n \in 1..Len(dashboard.by_month) :
                dashboard.by_month[n].month_sort # Unknown
          /\ dashboard.summary.total_trades = Len(all_trades)
          /\ \A k \in AllTrades :
                /\ ListedOnce(dashboard.by_sport, k)
                /\ Occurrences(dashboard.all_trades, k) = 1
                /\ IF k \in Dated
                   THEN /\ ListedOnce(dashboard.by_month, k)
                        /\ \A n \in BucketsOf(dashboard.by_month, k) :
                              dashboard.by_month[n].month_sort
                                 = MonthSort(parse_trade_date(all_trades[k].created_time))
                   ELSE BucketsOf(dashboard.by_month, k) = {}

\* A trade whose created_time is not a timestamp and a dated trade of another
\* sport: two by_sport buckets, one by_month bucket.
C5_Witness ==
    /\ pc = "done"
    /\ Len(dashboard.by_sport) = 2
    /\ Len(dashboard.by_month) = 1
    /\ \E k \in AllTrades \ Dated : all_trades[k].created_time = D_garbage
    /\ Dated # {}

InstantOf(k) == Instant(parse_trade_date(all_trades[k].created_time))

\* now - 7 days <= created_at
NotBeforeWindow(k) ==
    InstantGeq(InstantOf(k), <<Instant(now)[1] - WindowDays * SecondsPerDay, Instant(now)[2]>>)

\* created_at <= now
NotAfterNow(k) == InstantGeq(Instant(now), InstantOf(k))

\* recent_7_days is computed over exactly the trades of S.
RecentIs(S) ==
    /\ dashboard.recent_7_days.trades = Cardinality(S)
    /\ {dashboard.recent_7_days.trades_list[n] :
           n \in 1..Len(dashboard.recent_7_days.trades_list)} = S
    /\ Len(dashboard.recent_7_days.trades_list) = Cardinality(S)
    /\ dashboard.recent_7_days.invested
          = Round2(SumSeq(Tuple([n \in 1..Cardinality(S) |-> all_trades[Ascending(S)[n]].cost])))

\* With now = 2025-06-15T00:00:00Z a trade of 2025-06-09T12:00:00Z is in the
\* window and a trade of 2025-06-07T00:00:00Z is not.
WindowExamples ==
    now = fromisoformat(C_june15)
       => \A k \in AllTrades :
             /\ all_trades[k].created_time = D_june9
                   => Occurrences(dashboard.recent_7_days.trades_list, k) = 1
             /\ all_trades[k].created_time = D_june7
                   => Occurrences(dashboard.recent_7_days.trades_list, k) = 0

\* C6 as stated: recent_7_days is computed over exactly the dated trades with
\* now - 7 days <= created_at <= now.
C6_AsStated ==
    pc = "done"
       => /\ RecentIs({k \in Dated : NotBeforeWindow(k) /\ NotAfterNow(k)})
          /\ WindowExamples

\* C6 (amended): recent_7_days is computed over exactly the trades whose
\* parsed created_at is not earlier than now - 7 days, the bound included and
\* an offsetless instant read as UTC; there is no upper bound, a trade dated
\* after now is in it; trades without a parsed date are never in it; and the
\* two examples of the claim hold.
C6_Window ==
    pc = "done"
       => /\ RecentIs({k \in Dated : NotBeforeWindow(k)})
          /\ WindowExamples

\* At 2025-06-15T00:00:00Z: a trade stamped 2025-06-08T00:00:00, without an
\* offset, is in the window, and a trade of 2025-06-07T00:00:00Z is not.
C6_Witness ==
    /\ pc = "done"
    /\ now = fromisoformat(C_june15)
    /\ \E k \in AllTrades :
          /\ all_trades[k].created_time = D_june8_naive
          /\ Occurrences(dashboard.recent_7_days.trades_list, k) = 1
    /\ \E k \in AllTrades :
          /\ all_trades[k].created_time = D_june7
          /\ Occurrences(dashboard.recent_7_days.trades_list, k) = 0

\* The buckets of the snapshot, as <<won, lost, win_rate>>, the rate in
\* tenths of a percent.
Rates ==
    { <<dashboard.summary.won, dashboard.summary.lost, dashboard.summary.win_rate>>,
      <<dashboard.recent_7_days.won, dashboard.recent_7_days.lost,
        dashboard.recent_7_days.win_rate>> }
    \cup { <<dashboard.by_sport[n].won, dashboard.by_sport[n].lost,
             dashboard.by_sport[n].win_rate>> : n \in 1..Len(dashboard.by_sport) }
    \cup { <<dashboard.by_month[n].won, dashboard.by_month[n].lost,
             dashboard.by_month[n].win_rate>> : n \in 1..Len(dashboard.by_month) }

\* C7 as stated: in every bucket win_rate is in [0, 100], and it is 0 exactly
\* when won + lost = 0.
C7_AsStated ==
    pc = "done"
       => \A b \in Rates : /\ 0 <= b[3] /\ b[3] <= 1000
                           /\ b[3] = 0 <=> b[1] + b[2] = 0

\* C7 (amended): in every bucket win_rate is in [0, 100], and it is 0
\* whenever won + lost = 0; it is also 0 whenever won = 0, so a bucket of
\* lost trades alone has a win_rate of 0 with won + lost > 0.
C7_WinRate ==
    pc = "done"
       => \A b \in Rates : /\ 0 <= b[3] /\ b[3] <= 1000
                           /\ b[1] + b[2] = 0 => b[3] = 0
                           /\ b[1] = 0 => b[3] = 0

\* One won and one lost trade in two sports: 50.0 overall, 100.0 and 0.0 in
\* the sports, the latter with won + lost = 1.
C7_Witness ==
    /\ pc = "done"
    /\ dashboard.summary.won = 1
    /\ dashboard.summary.lost = 1
    /\ dashboard.summary.win_rate = 500
    /\ \E n \in 1..Len(dashboard.by_sport) :
          /\ dashboard.by_sport[n].won = 0
          /\ dashboard.by_sport[n].lost = 1
          /\ dashboard.by_sport[n].win_rate = 0

\* C9: the by_sport buckets come in non-increasing order of their profit
\* field, and there is exactly one bucket per sport present among the trades.
C9_SportsByProfit ==
    pc = "done"
       => /\ \A n \in 1..(Len(dashboard.by_sport) - 1) :
                dashboard.by_sport[n].profit >= dashboard.by_sport[n + 1].profit
          /\ \A n, m \in 1..Len(dashboard.by_sport) :
                dashboard.by_sport[n].sport = dashboard.by_sport[m].sport => n = m
          /\ {dashboard.by_sport[n].sport : n \in 1..Len(dashboard.by_sport)}
                = {all_trades[k].sport : k \in AllTrades}

\* The sport of the second trade is the more profitable and comes first.
C9_Witness ==
    /\ pc = "done"
    /\ Len(dashboard.by_sport) = 2
    /\ dashboard.by_sport[1].sport = all_trades[2].sport
    /\ dashboard.by_sport[2].sport = all_trades[1].sport
    /\ dashboard.by_sport[1].profit > dashboard.by_sport[2].profit
    /\ dashboard.by_sport[2].profit < 0

\* The lists of the snapshot that are sorted by date.
DateSortedLists ==
    { dashboard.all_trades, dashboard.recent_7_days.trades_list }
    \cup { dashboard.by_sport[n].trades_list : n \in 1..Len(dashboard.by_sport) }
    \cup { dashboard.by_month[n].trades_list : n \in 1..Len(dashboard.by_month) }

\* C8: all_trades lists every trade once, and in it and in every bucket's
\* trades_list, of two dated trades the one with the later instant comes
\* first, whatever the offset or the fraction of their timestamps; a trade
\* without a parsed date comes after every dated trade; and trades with equal
\* instants, or both without a date, keep their fetch order.
C8_Chronological ==
    pc = "done"
       => /\ \A k \in AllTrades : Occurrences(dashboard.all_trades, k) = 1
          /\ \A q \in DateSortedLists : \A a, b \in 1..Len(q) :
                a < b =>
                   /\ q[b] \in Dated => q[a] \in Dated
                   /\ (q[a] \in Dated /\ q[b] \in Dated)
                         => InstantGeq(InstantOf(q[a]), InstantOf(q[b]))
                   /\ (q[a] \in Dated /\ q[b] \in Dated /\ InstantOf(q[a]) = InstantOf(q[b]))
                         => q[a] < q[b]
                   /\ (q[a] \notin Dated /\ q[b] \notin Dated) => q[a] < q[b]

=============================================================================
